---- MODULE Spec2Model ----
\* Model of the ingestion lifecycle manager (GlobalIngestionLifecycleManager)
\* and of the per-task pipeline (IngestionOrchestrator.executeTask).
\*
\* JavaScript runs the manager on one thread: a method runs without
\* interruption up to its next `await`, and every `await` is a point where
\* other calls may run.  Each action below is one such uninterrupted stretch.
\* Task definitions are objects: the task store maps an id to an object
\* reference (an index into heap), so that a replaced object (updateTask) and
\* the object an in-flight execution still holds can differ.
EXTENDS Integers, Sequences, FiniteSets, TLC

\* ---------------------------------------------------------------- bounds
MaxOps == 2        \* lifecycle operations (schedule/update/enable/disable/delete/start/stop)
MaxCalls == 2      \* trigger calls issued
MaxInv == 2        \* entries into _executeIngestionTask
MaxRecs == 2       \* records a transformer returns at most
MaxImpl == 1       \* registrations per plugin name
WebhookOps == 3    \* the same three, where webhooks fan out (SpecWebhook)
WebhookCalls == 2
WebhookInv == 2
CronOps == 2
CronCalls == 2
CronInv == 2
GuardOps == 3      \* and where disabled tasks meet every trigger (SpecGuard)
GuardCalls == 2
GuardInv == 2
RegistryOps == 1   \* and where plugins are registered again (SpecRegistry)
RegistryCalls == 2
RegistryInv == 2
RegistryImpl == 2
DeleteOps == 3     \* and where a task is deleted and scheduled again (SpecDelete)
DeleteCalls == 2
DeleteInv == 2
LifecycleOps == 3  \* and where the lifecycle operations meet each other (SpecLifecycle)
LifecycleCalls == 1
LifecycleInv == 1
ModalityOps == 2   \* and where the three trigger methods meet (SpecModality)
ModalityCalls == 2
ModalityInv == 2
ArmOps == 3        \* and where the manager is started and stopped beside cron (SpecArm)
ArmCalls == 1
ArmInv == 1
SlotOps == 3       \* and where a cron task is also triggered by hand (SpecSlot)
SlotCalls == 2
SlotInv == 2
LiveOps == 3       \* and where every step in flight is eventually taken (SpecLive)
LiveCalls == 2
LiveInv == 4

\* ---------------------------------------------------------------- values
Ids == {"t1", "t2"}
Uuid == "u1"                       \* the id randomUUID() yields
KeyIds == Ids \cup {Uuid}
NoId == ""                         \* a definition with no id
SourceType == "src"
DestType == "dst"
NoDest == "none"                   \* task.destination undefined
NoTime == -1                       \* lastRun undefined
WindowSeconds == 65

SCHEDULED == "SCHEDULED"
RUNNING == "RUNNING"
COMPLETED == "COMPLETED"
FAILED == "FAILED"
DISABLED == "DISABLED"

TASK_SCHEDULED == "task_scheduled"
TASK_UPDATED == "task_updated"
TASK_ENABLED == "task_enabled"
TASK_DISABLED == "task_disabled"
TASK_DELETED == "task_deleted"
TASK_TRIGGERED == "task_triggered"
TASK_COMPLETED == "task_completed"
TASK_FAILED == "task_failed"
DATA_FETCHED == "data_fetched"
DATA_TRANSFORMED == "data_transformed"
DATA_PROCESSED == "data_processed"

\* A GSStatus: success flag, which message it carries, data.itemsProcessed
\* (-1 when the status has no such field).
St(ok, msg, items) == [success |-> ok, msg |-> msg, items |-> items]
NoStatus == St(FALSE, "undefined", -1)

ManualTrigger == [type |-> "manual", arg |-> ""]
WebhookTrigger(e) == [type |-> "webhook", arg |-> e]
CronTrigger(x) == [type |-> "cron", arg |-> x]

Payload(kind, val) == [kind |-> kind, val |-> val]
NoPayload == Payload("undefined", "")

VARIABLES
    heap,               \* the task definition objects ever stored, by reference
    tasks,              \* this.tasks: id -> reference (0: no entry)
    order,              \* insertion order of the keys of this.tasks
    sourcePlugins,      \* this.sourcePlugins: name -> registered implementation (0: none)
    destinationPlugins, \* this.destinationPlugins: name -> implementation (0: none)
    orchestrators,      \* this.orchestrators: id -> cached orchestrator
    eventBus,           \* what the lifecycle operations emitted on this.eventBus,
                        \* in order; what execution i emitted is invs[i].events
    lifecycleStarted,   \* this.lifecycleStarted
    calls,              \* the trigger calls issued so far
    invs,               \* the entries into _executeIngestionTask so far
    nextInst,           \* plugin instances constructed so far + 1
    clock,              \* the wall clock, new Date(), in seconds
    ret,                \* what the last lifecycle operation returned
    limits,             \* how many trigger calls, executions and registrations
                        \* per plugin name a run explores
    opsLeft             \* lifecycle operations still allowed by MaxOps

vars == <<heap, tasks, order, sourcePlugins, destinationPlugins, orchestrators,
          eventBus, lifecycleStarted, calls, invs, nextInst, clock, ret, limits, opsLeft>>

NoOrch == [inst |-> 0, impl |-> 0, dest |-> FALSE]

Ev(type, id, inv) == [type |-> type, id |-> id, inv |-> inv]

\* The manager as constructed.
Constructed ==
    /\ heap = <<>>
    /\ tasks = [k \in KeyIds |-> 0]
    /\ order = <<>>
    /\ sourcePlugins = [n \in {SourceType} |-> 0]
    /\ destinationPlugins = [n \in {DestType} |-> 0]
    /\ orchestrators = [k \in KeyIds |-> NoOrch]
    /\ eventBus = <<>>
    /\ lifecycleStarted = FALSE
    /\ calls = <<>>
    /\ invs = <<>>
    /\ nextInst = 1
    /\ clock = 0
    /\ ret = [op |-> "constructor", id |-> NoId, success |-> TRUE, updates |-> <<>>]

\* The manager as constructed, and what a run may explore.
InitWith(ops, ncalls, ninvs) ==
    /\ Constructed
    /\ limits = [calls |-> ncalls, invs |-> ninvs, impls |-> MaxImpl]
    /\ opsLeft = ops

Init == InitWith(MaxOps, MaxCalls, MaxInv)

\* ------------------------------------------------------------- helpers
RemoveAt(s, i) == [j \in 1..(Len(s) - 1) |-> IF j < i THEN s[j] ELSE s[j + 1]]

RECURSIVE IndexOf(_, _, _)
IndexOf(s, x, i) ==
    IF i > Len(s) THEN 0 ELSE IF s[i] = x THEN i ELSE IndexOf(s, x, i + 1)

\* (C29) a merge that schedules the task anew.
MergeM(task, updates) ==
    [f \in DOMAIN task |->
        IF f \in DOMAIN updates THEN updates[f]
        ELSE IF f = "currentStatus" THEN SCHEDULED ELSE task[f]]

\* { ...task, ...updates }
Merge(task, updates) ==
    [f \in DOMAIN task |-> IF f \in DOMAIN updates THEN updates[f] ELSE task[f]]

\* The trigger calls still iterating this.tasks.values() hold a position in
\* the key order; deleting an earlier key moves the rest one place down.
ShiftIterators(cs, p) ==
    [c \in DOMAIN cs |->
        IF cs[c].kind = "cron" /\ cs[c].pc = "await" /\ cs[c].pos >= p
        THEN [cs[c] EXCEPT !.pos = @ - 1]
        ELSE cs[c]]

Ret(op, id, ok) == [op |-> op, id |-> id, success |-> ok, updates |-> <<>>]

\* ------------------------------------------------- lifecycle operations
\* Each consumes one of the MaxOps operations, also when it changes nothing.
Op == opsLeft > 0 /\ opsLeft' = opsLeft - 1

start ==
    /\ Op
    /\ IF lifecycleStarted
       THEN UNCHANGED <<lifecycleStarted, eventBus>>
       ELSE /\ lifecycleStarted' = TRUE
            /\ eventBus' = Append(eventBus, Ev(TASK_TRIGGERED, "manager:start", 0))
    /\ ret' = Ret("start", NoId, TRUE)
    /\ UNCHANGED <<heap, tasks, order, sourcePlugins, destinationPlugins,
                   orchestrators, calls, invs, nextInst, clock, limits>>

\* (C27) stop without the check of line 66.
stopM ==
    /\ Op
    /\ lifecycleStarted' = FALSE
    /\ eventBus' = Append(eventBus, Ev(TASK_TRIGGERED, "manager:stop", 0))
    /\ ret' = Ret("stop", NoId, TRUE)
    /\ UNCHANGED <<heap, tasks, order, sourcePlugins, destinationPlugins,
                   orchestrators, calls, invs, nextInst, clock, limits>>

stop ==
    /\ Op
    /\ IF ~lifecycleStarted
       THEN UNCHANGED <<lifecycleStarted, eventBus>>
       ELSE /\ lifecycleStarted' = FALSE
            /\ eventBus' = Append(eventBus, Ev(TASK_TRIGGERED, "manager:stop", 0))
    /\ ret' = Ret("stop", NoId, TRUE)
    /\ UNCHANGED <<heap, tasks, order, sourcePlugins, destinationPlugins,
                   orchestrators, calls, invs, nextInst, clock, limits>>

\* Registration is not counted in MaxOps: limits.impls bounds it.  The
\* registry holds the number of the implementation registered last.
registerSource(n) ==
    /\ sourcePlugins[n] < limits.impls
    /\ sourcePlugins' = [sourcePlugins EXCEPT ![n] = @ + 1]
    /\ UNCHANGED <<heap, tasks, order, destinationPlugins, orchestrators, eventBus,
                   lifecycleStarted, calls, invs, nextInst, clock, ret, limits, opsLeft>>

registerDestination(n) ==
    /\ destinationPlugins[n] < limits.impls
    /\ destinationPlugins' = [destinationPlugins EXCEPT ![n] = @ + 1]
    /\ UNCHANGED <<heap, tasks, order, sourcePlugins, orchestrators, eventBus,
                   lifecycleStarted, calls, invs, nextInst, clock, ret, limits, opsLeft>>

\* The definitions a caller passes to scheduleTask: id, name, enabled,
\* trigger, source.pluginType, destination.pluginType.
TaskDef(id, enabled, trigger, dest) ==
    [id |-> id, name |-> "n1", enabled |-> enabled, trigger |-> trigger,
     source |-> SourceType, destination |-> dest,
     currentStatus |-> SCHEDULED, lastRun |-> NoTime, lastRunStatus |-> NoStatus]

\* (C7) scheduleTask without the collision check.
CollidesM(taskId) == FALSE

\* this.tasks.has(taskId), line 95.
Collides(taskId) == tasks[taskId] # 0

UuidUsed == \E r \in DOMAIN heap : heap[r].id = Uuid

\* (C28) a definition stored with the runtime fields the caller left in it.
ScheduledM(def, taskId) == [def EXCEPT !.id = taskId]

\* Lines 100-104: the definition as it is stored.
Scheduled(def, taskId) ==
    [def EXCEPT !.id = taskId, !.currentStatus = SCHEDULED, !.lastRun = NoTime,
                !.lastRunStatus = NoStatus]

scheduleTask(def) ==
    LET taskId == IF def.id = NoId THEN Uuid ELSE def.id
    IN  /\ Op
        /\ def.id = NoId => ~UuidUsed          \* randomUUID() is fresh
        /\ IF Collides(taskId)
           THEN /\ ret' = Ret("scheduleTask", taskId, FALSE)
                /\ UNCHANGED <<heap, tasks, order, eventBus>>
           ELSE /\ heap' = Append(heap, Scheduled(def, taskId))
                /\ tasks' = [tasks EXCEPT ![taskId] = Len(heap) + 1]
                /\ order' = Append(order, taskId)
                /\ eventBus' = Append(eventBus, Ev(TASK_SCHEDULED, taskId, 0))
                /\ ret' = Ret("scheduleTask", taskId, TRUE)
        /\ UNCHANGED <<sourcePlugins, destinationPlugins, orchestrators,
                       lifecycleStarted, calls, invs, nextInst, clock, limits>>

\* ret keeps the updates the caller passed beside what updateTask returned.
updateTask(taskId, updates) ==
    /\ Op
    /\ IF tasks[taskId] = 0
       THEN /\ ret' = [Ret("updateTask", taskId, FALSE) EXCEPT !.updates = updates]
            /\ UNCHANGED <<heap, tasks, eventBus>>
       ELSE /\ heap' = Append(heap, Merge(heap[tasks[taskId]], updates))
            /\ tasks' = [tasks EXCEPT ![taskId] = Len(heap) + 1]
            /\ eventBus' = Append(eventBus, Ev(TASK_UPDATED, taskId, 0))
            /\ ret' = [Ret("updateTask", taskId, TRUE) EXCEPT !.updates = updates]
    /\ UNCHANGED <<order, sourcePlugins, destinationPlugins, orchestrators,
                   lifecycleStarted, calls, invs, nextInst, clock, limits>>

\* (C26) enableTask without the check of line 141.
enableTaskM(taskId) ==
    LET r == tasks[taskId]
    IN  /\ Op
        /\ IF r = 0
           THEN /\ ret' = Ret("enableTask", taskId, FALSE)
                /\ UNCHANGED <<heap, eventBus>>
           ELSE /\ ret' = Ret("enableTask", taskId, TRUE)
                /\ heap' = [heap EXCEPT ![r].enabled = TRUE,
                                        ![r].currentStatus = SCHEDULED]
                /\ eventBus' = Append(eventBus, Ev(TASK_ENABLED, taskId, 0))
        /\ UNCHANGED <<tasks, order, sourcePlugins, destinationPlugins, orchestrators,
                       lifecycleStarted, calls, invs, nextInst, clock, limits>>

enableTask(taskId) ==
    LET r == tasks[taskId]
    IN  /\ Op
        /\ IF r = 0
           THEN /\ ret' = Ret("enableTask", taskId, FALSE)
                /\ UNCHANGED <<heap, eventBus>>
           ELSE /\ ret' = Ret("enableTask", taskId, TRUE)
                /\ IF heap[r].enabled
                   THEN UNCHANGED <<heap, eventBus>>
                   ELSE /\ heap' = [heap EXCEPT ![r].enabled = TRUE,
                                                ![r].currentStatus = SCHEDULED]
                        /\ eventBus' = Append(eventBus, Ev(TASK_ENABLED, taskId, 0))
        /\ UNCHANGED <<tasks, order, sourcePlugins, destinationPlugins, orchestrators,
                       lifecycleStarted, calls, invs, nextInst, clock, limits>>

disableTask(taskId) ==
    LET r == tasks[taskId]
    IN  /\ Op
        /\ IF r = 0
           THEN /\ ret' = Ret("disableTask", taskId, FALSE)
                /\ UNCHANGED <<heap, eventBus>>
           ELSE /\ ret' = Ret("disableTask", taskId, TRUE)
                /\ IF ~heap[r].enabled
                   THEN UNCHANGED <<heap, eventBus>>
                   ELSE /\ heap' = [heap EXCEPT ![r].enabled = FALSE,
                                                ![r].currentStatus = DISABLED]
                        /\ eventBus' = Append(eventBus, Ev(TASK_DISABLED, taskId, 0))
        /\ UNCHANGED <<tasks, order, sourcePlugins, destinationPlugins, orchestrators,
                       lifecycleStarted, calls, invs, nextInst, clock, limits>>

deleteTask(taskId) ==
    /\ Op
    /\ IF tasks[taskId] = 0
       THEN /\ ret' = Ret("deleteTask", taskId, FALSE)
            /\ UNCHANGED <<tasks, order, orchestrators, eventBus, calls>>
       ELSE /\ tasks' = [tasks EXCEPT ![taskId] = 0]
            /\ order' = RemoveAt(order, IndexOf(order, taskId, 1))
            /\ calls' = ShiftIterators(calls, IndexOf(order, taskId, 1))
            /\ orchestrators' = [orchestrators EXCEPT ![taskId] = NoOrch]
            /\ eventBus' = Append(eventBus, Ev(TASK_DELETED, taskId, 0))
            /\ ret' = Ret("deleteTask", taskId, TRUE)
    /\ UNCHANGED <<heap, sourcePlugins, destinationPlugins, lifecycleStarted,
                   invs, nextInst, clock, limits>>

\* ------------------------------------------- _executeIngestionTask, entry
\* What a plugin call can do: return, throw an Error, or throw a value with
\* no .message to read (null, undefined).
Throws == {"throw", "throwNullish"}
Outcomes == {"ok"} \cup Throws

NewInv(c, ref, taskId, payload) ==
    [call |-> c, id |-> taskId, ref |-> ref, payload |-> payload, pc |-> "entry",
     impl |-> 0, orch |-> NoOrch, thrown |-> "none", ostatus |-> NoStatus,
     othrew |-> FALSE,
     srcok |-> "none", carried |-> <<>>, calledAt |-> NoTime, stamps |-> <<>>,
     shape |-> "none", raw |-> <<>>, fetchedAt |-> NoTime, recs |-> -1, sent |-> "none",
     status |-> NoStatus, events |-> <<>>]

\* (C11) _executeIngestionTask without its guard.
DisabledM(task) == FALSE

\* !task.enabled, line 303.
Disabled(task) == ~task.enabled

\* (C13) _executeIngestionTask without the registry checks.
NotRegisteredM(def) == FALSE

\* !sourceDef, !destinationDef (lines 315, 323).
NotRegistered(def) == def = 0

\* Lines 352-355 and orchestrator.executeTask up to `await initClient()`:
\* RUNNING, lastRun, TASK_TRIGGERED.
BeginRun(h, ref) ==
    [h EXCEPT ![ref].currentStatus = RUNNING, ![ref].lastRun = clock]

\* The synchronous start of _executeIngestionTask(ctx, task.id, task, payload)
\* for the task object ref, called from trigger call c: everything up to its
\* first await.  ctor is what the source plugin's constructor does.
ExecStart(c, ref, payload, ctor) ==
    LET task == heap[ref]
        taskId == task.id
        i == Len(invs) + 1
        inv == NewInv(c, ref, taskId, payload)
        sourceDef == sourcePlugins[task.source]
        destinationDef == IF task.destination # NoDest
                          THEN destinationPlugins[task.destination] ELSE 0
        same == [heap |-> heap, orchestrators |-> orchestrators, nextInst |-> nextInst]
        triggered == <<Ev(TASK_TRIGGERED, taskId, i)>>
        lookupFailed(msg) ==
            [heap |-> [heap EXCEPT ![ref].currentStatus = FAILED,
                                   ![ref].lastRunStatus = St(FALSE, msg, -1)],
             orchestrators |-> orchestrators,
             nextInst |-> nextInst,
             invs |-> Append(invs, [inv EXCEPT !.pc = "done",
                                               !.status = St(FALSE, msg, -1),
                                               !.events = <<Ev(TASK_FAILED, taskId, i)>>])]
        cached == orchestrators[taskId]
        fresh == [inst |-> nextInst, impl |-> sourceDef, dest |-> FALSE]
    IN  IF Disabled(task)
        THEN same @@ [invs |-> Append(invs, [inv EXCEPT !.pc = "done",
                                  !.status = St(FALSE, "disabled", -1)])]
        ELSE IF NotRegistered(sourceDef) THEN lookupFailed("source_not_registered")
        ELSE IF task.destination # NoDest /\ NotRegistered(destinationDef)
             THEN lookupFailed("destination_not_registered")
        ELSE IF cached # NoOrch
             THEN [heap |-> BeginRun(heap, ref), orchestrators |-> orchestrators,
                   nextInst |-> nextInst,
                   invs |-> Append(invs, [inv EXCEPT !.pc = "initClient",
                                                     !.impl = sourceDef,
                                                     !.orch = cached,
                                                     !.events = triggered])]
        ELSE IF ctor \in Throws
             THEN same @@ [invs |-> Append(invs, [inv EXCEPT !.pc = "threw",
                                                      !.thrown = ctor])]
        ELSE IF task.destination # NoDest
             THEN [heap |-> heap, orchestrators |-> orchestrators,
                   nextInst |-> nextInst + 1,
                   invs |-> Append(invs, [inv EXCEPT !.pc = "destInit",
                                                     !.impl = sourceDef,
                                                     !.orch = [fresh EXCEPT !.dest = TRUE]])]
        ELSE [heap |-> BeginRun(heap, ref),
              orchestrators |-> [orchestrators EXCEPT ![taskId] = fresh],
              nextInst |-> nextInst + 1,
              invs |-> Append(invs, [inv EXCEPT !.pc = "initClient",
                                                !.impl = sourceDef,
                                                !.orch = fresh,
                                                !.events = triggered])]

\* An action's frame: the variables ExecStart computes.
Apply(r) ==
    /\ heap' = r.heap
    /\ orchestrators' = r.orchestrators
    /\ nextInst' = r.nextInst
    /\ invs' = r.invs

\* `await destinationPluginInstance.init(config)` is over (lines 339-355).
destInitDone(i, out) ==
    LET inv == invs[i]
    IN  /\ inv.pc = "destInit"
        /\ IF out \in Throws
           THEN /\ invs' = [invs EXCEPT ![i].pc = "threw",
                                        ![i].thrown = out]
                /\ UNCHANGED <<heap, orchestrators>>
           ELSE /\ orchestrators' = [orchestrators EXCEPT ![inv.id] = inv.orch]
                /\ heap' = BeginRun(heap, inv.ref)
                /\ invs' = [invs EXCEPT ![i].pc = "initClient",
                                        ![i].events = <<Ev(TASK_TRIGGERED, inv.id, i)>>]
        /\ UNCHANGED <<eventBus, tasks, order, sourcePlugins, destinationPlugins,
                       lifecycleStarted, calls, nextInst, clock, ret, limits, opsLeft>>

\* --------------------------------------- IngestionOrchestrator.executeTask
\* What source.execute resolves to: a successful status whose data has one
\* of these shapes, or a failed status.
Shapes == {"arr0", "arr2", "nestedScalar", "nestedFalsy", "plain", "none"}

\* (C34) an extraction that wraps whatever status.data.data is.
ExtractRawM(shape) ==
    CASE shape \in {"arr0", "arr2", "nestedScalar"} -> <<"data.data">>
      [] shape \in {"nestedFalsy", "plain"} -> <<"data">>
      [] shape = "none" -> <<>>

\* rawData (lines 59-68), each item named by where it was taken from.
ExtractRaw(shape) ==
    CASE shape = "arr0" -> <<>>
      [] shape = "arr2" -> <<"data.data[0]", "data.data[1]">>
      [] shape = "nestedScalar" -> <<"data.data">>
      [] shape = "nestedFalsy" -> <<"data">>
      [] shape = "plain" -> <<"data">>
      [] shape = "none" -> <<>>

\* (C15) a catch that records the failure and goes on with the transformer.
OrchCatchM(i, out) ==
    invs' = [invs EXCEPT ![i].pc = "transform",
                         ![i].ostatus = St(FALSE, "task_failed_exception", 0),
                         ![i].events = Append(@, Ev(TASK_FAILED, invs[i].id, i))]

\* The outer catch (lines 125-130): reading error.message of a nullish value
\* throws again, out of executeTask.
OrchCatch(i, out) ==
    IF out = "throwNullish"
    THEN invs' = [invs EXCEPT ![i].pc = "mgrResume", ![i].othrew = TRUE]
    ELSE invs' = [invs EXCEPT ![i].pc = "mgrResume",
                              ![i].ostatus = St(FALSE, "task_failed_exception", 0),
                              ![i].events = Append(@, Ev(TASK_FAILED, invs[i].id, i))]

OrchFrame == UNCHANGED <<heap, eventBus, tasks, order, sourcePlugins, destinationPlugins,
                         orchestrators, lifecycleStarted, calls, nextInst, clock,
                         ret, limits, opsLeft>>

\* `await this.sourceDataSource.initClient()` is over (lines 48-53).
initClientDone(i, out) ==
    /\ invs[i].pc = "initClient"
    /\ IF out \in Throws
       THEN OrchCatch(i, out)
       ELSE invs' = [invs EXCEPT ![i].pc = "execute", ![i].calledAt = clock]
    /\ OrchFrame

\* The failed status a source returns: its message and its data.
SourceFailure == [message |-> "m", data |-> "d"]

\* What the failed pipeline status carries of it (lines 70, 73): the message
\* behind a prefix, the data as { data: ... }.
Carry(sourceResultStatus) ==
    [message |-> <<"Source execution failed for task", sourceResultStatus.message>>,
     data |-> [data |-> sourceResultStatus.data]]

\* (C18) a pipeline that takes a failed source for one without data.
executeDoneM(i, out) ==
    /\ invs[i].pc = "execute"
    /\ out \in Shapes \cup {"failure"} \cup Throws
    /\ invs' = [invs EXCEPT ![i].pc = "transform", ![i].fetchedAt = clock,
                            ![i].srcok = IF out = "failure" THEN "failure" ELSE "success",
                            ![i].events = Append(@, Ev(DATA_FETCHED, invs[i].id, i))]
    /\ OrchFrame

\* `await this.sourceDataSource.execute(ctx, initialPayload)` is over
\* (lines 53-81); srcok keeps whether the status it returned was a success.
executeDone(i, out) ==
    /\ invs[i].pc = "execute"
    /\ out \in Shapes \cup {"failure"} \cup Throws
    /\ IF out \in Throws
       THEN OrchCatch(i, out)
       ELSE IF out = "failure"
       THEN invs' = [invs EXCEPT ![i].pc = "mgrResume", ![i].fetchedAt = clock,
                                 ![i].srcok = "failure",
                                 ![i].carried = Carry(SourceFailure),
                                 ![i].ostatus = St(FALSE, "source_failed", -1),
                                 ![i].events = Append(@, Ev(TASK_FAILED, invs[i].id, i))]
       ELSE invs' = [invs EXCEPT ![i].pc = "transform", ![i].fetchedAt = clock,
                                 ![i].srcok = "success",
                                 ![i].shape = out,
                                 ![i].raw = ExtractRaw(out),
                                 ![i].events = Append(@, Ev(DATA_FETCHED, invs[i].id, i))]
    /\ OrchFrame

\* (C10) the pipeline without the empty-result short cut.
NoRecordsM(n) == FALSE

\* transformedData.length === 0, line 86.
NoRecords(n) == n = 0

\* The fetchedAt of the n records a transformer returns.  The repository's
\* transformers never read the payload the orchestrator passes (with its
\* fetchedAt, line 79); they return copies { ...item } of the raw items, so
\* that a record has the fetchedAt its source gave the item: a `new Date()`
\* taken when execute began (e.g. http-crawler.ts, line 61).
RecordStamps(inv, n) == [k \in 1..n |-> inv.calledAt]

\* (C17) an orchestrator that always delivers.
HasDestinationM(orch) == TRUE

\* if (this.destination), line 95.
HasDestination(orch) == orch.dest

\* `await this.dataTransformer(rawData, payloadWithFetchedAt)` is over
\* (lines 81-97); n is the number of records it returned.  rawData and the
\* source's status are not read again.
transformDone(i, out, n) ==
    LET id == invs[i].id
        done(st) ==
            invs' = [invs EXCEPT ![i].pc = "mgrResume", ![i].raw = <<>>,
                                 ![i].shape = "none", ![i].recs = n, ![i].ostatus = st,
                                 ![i].stamps = RecordStamps(invs[i], n),
                                 ![i].events = @ \o <<Ev(DATA_TRANSFORMED, id, i),
                                                      Ev(TASK_COMPLETED, id, i)>>]
    IN  /\ invs[i].pc = "transform"
        /\ IF out \in Throws
           THEN OrchCatch(i, out)
           ELSE IF NoRecords(n)
           THEN done(St(TRUE, "no_data", 0))
           ELSE IF HasDestination(invs[i].orch)
           THEN invs' = [invs EXCEPT ![i].pc = "process", ![i].raw = <<>>,
                                     ![i].shape = "none", ![i].recs = n,
                                     ![i].stamps = RecordStamps(invs[i], n),
                                     ![i].events = Append(@, Ev(DATA_TRANSFORMED, id, i))]
           ELSE done(St(TRUE, "completed", n))
        /\ OrchFrame

\* (C16) a pipeline that takes whatever processData does for a delivery.
processDoneM(i, out) ==
    /\ invs[i].pc = "process"
    /\ out \in {"success", "failure"} \cup Throws
    /\ invs' = [invs EXCEPT ![i].pc = "mgrResume", ![i].sent = out,
                            ![i].ostatus = St(TRUE, "completed", invs[i].recs),
                            ![i].events = @ \o <<Ev(DATA_PROCESSED, invs[i].id, i),
                                                 Ev(TASK_COMPLETED, invs[i].id, i)>>]
    /\ OrchFrame

\* `await this.destination.processData(transformedData)` is over
\* (lines 97-123); sent keeps what processData did.
processDone(i, out) ==
    LET id == invs[i].id
        failed(msg) ==
            invs' = [invs EXCEPT ![i].pc = "mgrResume", ![i].sent = out,
                                 ![i].ostatus = St(FALSE, msg, 0),
                                 ![i].events = Append(@, Ev(TASK_FAILED, id, i))]
    IN  /\ invs[i].pc = "process"
        /\ out \in {"success", "failure"} \cup Throws
        /\ CASE out = "success" ->
                  invs' = [invs EXCEPT ![i].pc = "mgrResume", ![i].sent = out,
                              ![i].ostatus = St(TRUE, "completed", invs[i].recs),
                              ![i].events = @ \o <<Ev(DATA_PROCESSED, id, i),
                                                   Ev(TASK_COMPLETED, id, i)>>]
             [] out = "failure" -> failed("destination_failed")
             [] out = "throw" -> failed("destination_error")
             \* the inner catch throws on sendError.message; the outer one catches
             [] out = "throwNullish" -> failed("task_failed_exception")
        /\ OrchFrame

\* ------------------------------- _executeIngestionTask, lines 362-385
\* (C37) bookkeeping that marks every finished execution COMPLETED.
TerminalStatusM(executionStatus) == COMPLETED

\* The status an execution ends in, lines 364-376.
TerminalStatus(executionStatus) ==
    IF executionStatus.success THEN COMPLETED ELSE FAILED

\* `await orchestrator.executeTask(...)` is over: the bookkeeping and the
\* manager's own terminal event.
mgrResume(i) ==
    LET inv == invs[i]
        executionStatus == IF inv.othrew THEN St(FALSE, "unhandled_error", -1)
                           ELSE inv.ostatus
        terminal == TerminalStatus(executionStatus)
    IN  /\ inv.pc = "mgrResume"
        /\ heap' = [heap EXCEPT ![inv.ref].lastRunStatus = executionStatus,
                                ![inv.ref].currentStatus = terminal]
        /\ invs' = [invs EXCEPT ![i].pc = "done", ![i].status = executionStatus,
                ![i].events = Append(@,
                    Ev(IF executionStatus.success THEN TASK_COMPLETED ELSE TASK_FAILED,
                       inv.id, i))]
        /\ UNCHANGED <<eventBus, tasks, order, sourcePlugins, destinationPlugins, orchestrators,
                       lifecycleStarted, calls, nextInst, clock, ret, limits, opsLeft>>

\* ------------------------------------------------------- trigger calls
NewCall(kind, arg, payload, now) ==
    [kind |-> kind, arg |-> arg, payload |-> payload, now |-> now, pc |-> "await",
     cur |-> 0, queue |-> <<>>, matched |-> <<>>, pos |-> 0, due |-> 0,
     results |-> <<>>, status |-> NoStatus]

Result(taskId, st) == [taskId |-> taskId, status |-> st]

CallFrame == UNCHANGED <<eventBus, tasks, order, sourcePlugins, destinationPlugins,
                         lifecycleStarted, clock, ret, limits, opsLeft>>

triggerManualTask(taskId, initialPayload, ctor) ==
    LET c == Len(calls) + 1
        call == NewCall("manual", taskId, initialPayload, NoTime)
        fail(msg) ==
            /\ calls' = Append(calls, [call EXCEPT !.pc = "returned",
                                                   !.status = St(FALSE, msg, -1)])
            /\ UNCHANGED <<heap, orchestrators, nextInst, invs>>
    IN  /\ Len(calls) < limits.calls
        /\ Len(invs) < limits.invs
        /\ IF tasks[taskId] = 0 THEN fail("not_found")
           ELSE IF ~heap[tasks[taskId]].enabled THEN fail("disabled")
           ELSE /\ calls' = Append(calls, [call EXCEPT !.cur = Len(invs) + 1])
                /\ Apply(ExecStart(c, tasks[taskId], initialPayload, ctor))
        /\ CallFrame

\* (C9) the filter without `task.enabled`.
RECURSIVE WebhookTasksM(_, _)
WebhookTasksM(endpointId, p) ==
    IF p > Len(order) THEN <<>>
    ELSE (IF heap[tasks[order[p]]].trigger = WebhookTrigger(endpointId)
          THEN <<tasks[order[p]]>> ELSE <<>>) \o WebhookTasksM(endpointId, p + 1)

\* Array.from(this.tasks.values()).filter(...), as object references.
RECURSIVE WebhookTasks(_, _)
WebhookTasks(endpointId, p) ==
    IF p > Len(order) THEN <<>>
    ELSE LET task == heap[tasks[order[p]]]
         IN  (IF task.enabled /\ task.trigger = WebhookTrigger(endpointId)
              THEN <<tasks[order[p]]>> ELSE <<>>) \o WebhookTasks(endpointId, p + 1)

\* The aggregate a webhook or cron call returns from its result list.
Aggregate(results, msg) ==
    St(\A k \in DOMAIN results : results[k].status.success, msg, -1)

triggerWebhookTask(endpointId, payload, ctor) ==
    LET c == Len(calls) + 1
        tasksToTrigger == WebhookTasks(endpointId, 1)
        call == NewCall("webhook", endpointId, Payload("webhookPayload", payload), NoTime)
    IN  /\ Len(calls) < limits.calls
        /\ Len(invs) < limits.invs
        /\ IF tasksToTrigger = <<>>
           THEN /\ calls' = Append(calls, [call EXCEPT !.pc = "returned",
                                  !.status = St(FALSE, "no_enabled_webhook_task", -1)])
                /\ UNCHANGED <<heap, orchestrators, nextInst, invs>>
           ELSE /\ calls' = Append(calls, [call EXCEPT !.cur = Len(invs) + 1,
                                                       !.matched = tasksToTrigger,
                                                       !.queue = Tail(tasksToTrigger)])
                /\ Apply(ExecStart(c, Head(tasksToTrigger), call.payload, ctor))
        /\ CallFrame

\* CronExpressionParser.parse(expression): the period of the schedule in
\* seconds, 0 when the expression does not parse.
CronPeriod(expression) ==
    CASE expression = "*/1 * * * *" -> 60
      [] expression = "*/5 * * * *" -> 300
      [] OTHER -> 0

\* interval.prev(): the last scheduled time before or at now.
PreviousRunTime(expression, now) ==
    (now \div CronPeriod(expression)) * CronPeriod(expression)

\* (C6) the condition without the lastRun comparison.
IsDueM(task, now) ==
    /\ PreviousRunTime(task.trigger.arg, now) > now - WindowSeconds
    /\ PreviousRunTime(task.trigger.arg, now) <= now

\* The condition of lines 262-263.
IsDue(task, now) ==
    LET previousRunTime == PreviousRunTime(task.trigger.arg, now)
        sixtyFiveSecondsAgo == now - WindowSeconds
    IN  /\ previousRunTime > sixtyFiveSecondsAgo
        /\ previousRunTime <= now
        /\ (task.lastRun = NoTime \/ task.lastRun < previousRunTime)

\* (C20) a loop that a parse error ends.
RECURSIVE CronScanM(_, _, _)
CronScanM(p, now, errs) ==
    IF p > Len(order) THEN [pos |-> p, errs |-> errs]
    ELSE LET task == heap[tasks[order[p]]]
         IN  IF ~(task.enabled /\ task.trigger.type = "cron")
             THEN CronScanM(p + 1, now, errs)
             ELSE IF CronPeriod(task.trigger.arg) = 0
             THEN [pos |-> Len(order) + 1,
                   errs |-> Append(errs, Result(task.id, St(FALSE, "cron_parse_error", -1)))]
             ELSE IF IsDue(task, now) THEN [pos |-> p, errs |-> errs]
             ELSE CronScanM(p + 1, now, errs)

\* The loop of lines 242-283 from position p of the key order, up to the
\* first due task (where it awaits) or the end: the position it stops at and
\* the parse failures it recorded on the way.
RECURSIVE CronScan(_, _, _)
CronScan(p, now, errs) ==
    IF p > Len(order) THEN [pos |-> p, errs |-> errs]
    ELSE LET task == heap[tasks[order[p]]]
         IN  IF ~(task.enabled /\ task.trigger.type = "cron")
             THEN CronScan(p + 1, now, errs)
             ELSE IF CronPeriod(task.trigger.arg) = 0
             THEN CronScan(p + 1, now,
                           Append(errs, Result(task.id, St(FALSE, "cron_parse_error", -1))))
             ELSE IF IsDue(task, now) THEN [pos |-> p, errs |-> errs]
             ELSE CronScan(p + 1, now, errs)

\* Lines 285-295.
CronReturn(call) ==
    IF call.due = 0 THEN St(TRUE, "no_cron_tasks_due", -1)
    ELSE Aggregate(call.results, "cron_summary")

\* Continue the cron loop of call (already holding its results) at p.
CronContinue(c, call, p, ctor) ==
    LET scan == CronScan(p, call.now, <<>>)
        seen == [call EXCEPT !.results = @ \o scan.errs, !.pos = scan.pos]
    IN  IF scan.pos > Len(order)
        THEN /\ calls' = [c2 \in DOMAIN calls \cup {c} |->
                            IF c2 = c THEN [seen EXCEPT !.pc = "returned",
                                                        !.status = CronReturn(seen)]
                            ELSE calls[c2]]
             /\ UNCHANGED <<heap, orchestrators, nextInst, invs>>
        ELSE /\ Len(invs) < limits.invs
             /\ calls' = [c2 \in DOMAIN calls \cup {c} |->
                            IF c2 = c THEN [seen EXCEPT !.pc = "await",
                                                        !.due = @ + 1,
                                                        !.cur = Len(invs) + 1]
                            ELSE calls[c2]]
             /\ Apply(ExecStart(c, tasks[order[scan.pos]], NoPayload, ctor))

triggerAllEnabledCronTasks(now, ctor) ==
    /\ Len(calls) < limits.calls
    /\ CronContinue(Len(calls) + 1, NewCall("cron", "", NoPayload, now), 1, ctor)
    /\ CallFrame

\* (C4) the trigger methods without the await.
SettledM(inv) == TRUE

\* `await this._executeIngestionTask(...)` (lines 205, 223, 268) lets the
\* trigger method go on once the execution has returned or thrown.
Settled(inv) == inv.pc \in {"done", "threw"}

\* The awaited _executeIngestionTask of call c has settled: the rest of the
\* trigger method up to its next await or its return.
callResume(c, ctor) ==
    LET call == calls[c]
        inv == invs[call.cur]
        pushed == [call EXCEPT !.results = Append(@, Result(inv.id, inv.status))]
    IN  /\ call.pc = "await"
        /\ Settled(inv)
        /\ CASE call.kind = "manual" ->
                  /\ calls' = [calls EXCEPT ![c] =
                                 IF inv.pc = "threw" THEN [call EXCEPT !.pc = "thrown"]
                                 ELSE [call EXCEPT !.pc = "returned",
                                                   !.status = inv.status]]
                  /\ UNCHANGED <<heap, orchestrators, nextInst, invs>>
             [] call.kind = "webhook" ->
                  IF inv.pc = "threw"
                  THEN /\ calls' = [calls EXCEPT ![c].pc = "thrown"]
                       /\ UNCHANGED <<heap, orchestrators, nextInst, invs>>
                  ELSE IF call.queue = <<>>
                  THEN /\ calls' = [calls EXCEPT ![c] =
                             [pushed EXCEPT !.pc = "returned",
                                 !.status = Aggregate(pushed.results, "webhook_summary")]]
                       /\ UNCHANGED <<heap, orchestrators, nextInst, invs>>
                  ELSE /\ Len(invs) < limits.invs
                       /\ calls' = [calls EXCEPT ![c] =
                             [pushed EXCEPT !.cur = Len(invs) + 1,
                                            !.queue = Tail(call.queue)]]
                       /\ Apply(ExecStart(c, Head(call.queue), call.payload, ctor))
             [] call.kind = "cron" ->
                  \* the catch of lines 278-281 reads error.message
                  IF inv.pc = "threw" /\ inv.thrown = "throwNullish"
                  THEN /\ calls' = [calls EXCEPT ![c].pc = "thrown"]
                       /\ UNCHANGED <<heap, orchestrators, nextInst, invs>>
                  ELSE CronContinue(c,
                         IF inv.pc = "threw"
                         THEN [call EXCEPT !.results = Append(@,
                                  Result(inv.id, St(FALSE, "cron_parse_error", -1)))]
                         ELSE pushed,
                         call.pos + 1, ctor)
        /\ CallFrame

\* The wall clock moves on.
Times == {0, 60, 125}

tick(t) ==
    /\ t \in Times
    /\ t > clock
    /\ clock' = t
    /\ UNCHANGED <<heap, tasks, order, sourcePlugins, destinationPlugins, orchestrators,
                   eventBus, lifecycleStarted, calls, invs, nextInst, ret, limits,
                   opsLeft>>

\* ------------------------------------------------------ specifications
\* What the registered plugins may do at each call into them.
AnyPlugin ==
    [ctor |-> Outcomes, init |-> Outcomes, initClient |-> Outcomes,
     execute |-> Shapes \cup {"failure"} \cup Throws,
     transform |-> Outcomes, records |-> 0..MaxRecs,
     processData |-> {"success", "failure"} \cup Throws]

\* Plugins whose constructor and init may throw an Error, whose source may
\* fail, and which otherwise deliver one record.
PlainPlugin ==
    [ctor |-> {"ok", "throw"}, init |-> {"ok", "throw"}, initClient |-> {"ok"},
     execute |-> {"arr2", "failure"}, transform |-> {"ok"}, records |-> {1},
     processData |-> {"success"}]

\* The steps of the executions and trigger calls in flight.
Execution(plugin) ==
    \/ \E i \in DOMAIN invs, out \in plugin.init : destInitDone(i, out)
    \/ \E i \in DOMAIN invs, out \in plugin.initClient : initClientDone(i, out)
    \/ \E i \in DOMAIN invs, out \in plugin.execute : executeDone(i, out)
    \/ \E i \in DOMAIN invs, out \in plugin.transform, n \in plugin.records :
          transformDone(i, out, n)
    \/ \E i \in DOMAIN invs, out \in plugin.processData : processDone(i, out)
    \/ \E i \in DOMAIN invs : mgrResume(i)
    \/ \E c \in DOMAIN calls, ctor \in plugin.ctor : callResume(c, ctor)

Registration ==
    \/ registerSource(SourceType)
    \/ registerDestination(DestType)

\* Spec: one manually triggered task, with or without a destination, from
\* the construction of the manager on; trigger calls may overlap each other
\* and the lifecycle operations.
RunDefs == {TaskDef("t1", TRUE, ManualTrigger, d) : d \in {NoDest, DestType}}
RunUpdates == {[name |-> "n2"]}

Next ==
    \/ Registration
    \/ Execution(AnyPlugin)
    \/ \E def \in RunDefs : scheduleTask(def)
    \/ \E u \in RunUpdates : updateTask("t1", u)
    \/ enableTask("t1")
    \/ disableTask("t1")
    \/ deleteTask("t1")
    \/ \E ctor \in Outcomes : triggerManualTask("t1", Payload("payload", "p"), ctor)

Spec == Init /\ [][Next]_vars

\* SpecWebhook: two tasks behind one webhook endpoint, from the construction
\* of the manager on; webhook calls may overlap each other and disableTask.
WebhookDefs ==
    {TaskDef(id, TRUE, WebhookTrigger("X"), d) : id \in Ids, d \in {NoDest, DestType}}

InitWebhook == InitWith(WebhookOps, WebhookCalls, WebhookInv)

NextWebhook ==
    \/ Registration
    \/ Execution(PlainPlugin)
    \/ \E def \in WebhookDefs : scheduleTask(def)
    \/ \E id \in Ids : disableTask(id)
    \/ \E e \in {"X", "Y"}, ctor \in PlainPlugin.ctor : triggerWebhookTask(e, "p", ctor)

SpecWebhook == InitWebhook /\ [][NextWebhook]_vars

\* SpecCron: a task scheduled every minute or every five minutes, with or
\* without a destination, beside a second one that is due every minute,
\* disabled, has an expression that does not parse or is not a cron task;
\* the scheduler's ticks carry an event time the wall clock has reached and
\* may overlap.
CronDefs ==
    {TaskDef("t1", TRUE, CronTrigger(x), d) :
        x \in {"*/1 * * * *", "*/5 * * * *"}, d \in {NoDest, DestType}}
    \cup {TaskDef("t2", TRUE, CronTrigger("*/1 * * * *"), NoDest),
          TaskDef("t2", FALSE, CronTrigger("*/1 * * * *"), NoDest),
          TaskDef("t2", TRUE, CronTrigger("not a cron"), NoDest),
          TaskDef("t2", TRUE, ManualTrigger, NoDest)}

InitCron == InitWith(CronOps, CronCalls, CronInv)

NextCron ==
    \/ Registration
    \/ Execution(PlainPlugin)
    \/ \E def \in CronDefs : scheduleTask(def)
    \/ \E t \in Times : tick(t)
    \/ \E now \in Times, ctor \in PlainPlugin.ctor :
          now <= clock /\ triggerAllEnabledCronTasks(now, ctor)

SpecCron == InitCron /\ [][NextCron]_vars

\* SpecGuard: two tasks, each triggered manually, by the webhook X or by
\* cron every minute, scheduled enabled or disabled and enabled or disabled
\* again while trigger calls are in flight; the plugins always succeed.
GuardDefs ==
    {TaskDef(id, en, tr, IF id = "t2" THEN DestType ELSE NoDest) :
        id \in Ids, en \in BOOLEAN,
        tr \in {ManualTrigger, WebhookTrigger("X"), CronTrigger("*/1 * * * *")}}

GoodPlugin ==
    [ctor |-> {"ok"}, init |-> {"ok"}, initClient |-> {"ok"}, execute |-> {"arr2"},
     transform |-> {"ok"}, records |-> {1}, processData |-> {"success"}]

InitGuard == InitWith(GuardOps, GuardCalls, GuardInv)

NextGuard ==
    \/ Registration
    \/ Execution(GoodPlugin)
    \/ \E def \in GuardDefs : scheduleTask(def)
    \/ \E id \in Ids : disableTask(id)
    \/ \E id \in Ids : enableTask(id)
    \/ \E id \in Ids : triggerManualTask(id, Payload("payload", "p"), "ok")
    \/ triggerWebhookTask("X", "p", "ok")
    \/ triggerAllEnabledCronTasks(0, "ok")

SpecGuard == InitGuard /\ [][NextGuard]_vars

\* SpecRegistry: one manually triggered task, with plugins that always
\* succeed and whose names may be registered a second time.
InitRegistry ==
    /\ Constructed
    /\ limits = [calls |-> RegistryCalls, invs |-> RegistryInv, impls |-> RegistryImpl]
    /\ opsLeft = RegistryOps

NextRegistry ==
    \/ Registration
    \/ Execution(GoodPlugin)
    \/ \E def \in RunDefs : scheduleTask(def)
    \/ triggerManualTask("t1", Payload("payload", "p"), "ok")

SpecRegistry == InitRegistry /\ [][NextRegistry]_vars

\* SpecDelete: one manually triggered task, with or without a destination,
\* that may be deleted and scheduled again under its id while trigger calls
\* are in flight; the plugins always succeed.
InitDelete == InitWith(DeleteOps, DeleteCalls, DeleteInv)

NextDelete ==
    \/ Registration
    \/ Execution(GoodPlugin)
    \/ \E def \in RunDefs : scheduleTask(def)
    \/ deleteTask("t1")
    \/ triggerManualTask("t1", Payload("payload", "p"), "ok")

SpecDelete == InitDelete /\ [][NextDelete]_vars

\* SpecLifecycle: the lifecycle operations on one task, scheduled enabled or
\* disabled, without a destination or with one and with runtime fields the
\* caller left in the definition, beside a second task and one scheduled
\* without an id; t1 may
\* be updated (its name, its id, or enabled and currentStatus together),
\* enabled, disabled and triggered once, and the manager started and stopped.
Stale(def) ==
    [def EXCEPT !.currentStatus = FAILED, !.lastRun = 0,
                !.lastRunStatus = St(FALSE, "source_failed", -1)]

LifecycleDefs ==
    {TaskDef("t1", en, ManualTrigger, NoDest) : en \in BOOLEAN}
    \cup {Stale(TaskDef("t1", en, ManualTrigger, DestType)) : en \in BOOLEAN}
    \cup {TaskDef("t2", TRUE, ManualTrigger, NoDest),
          Stale(TaskDef(NoId, FALSE, ManualTrigger, NoDest))}

LifecycleUpdates ==
    {[name |-> "n2"], [id |-> "t2"], [enabled |-> FALSE, currentStatus |-> COMPLETED]}

InitLifecycle == InitWith(LifecycleOps, LifecycleCalls, LifecycleInv)

NextLifecycle ==
    \/ Registration
    \/ Execution(GoodPlugin)
    \/ \E def \in LifecycleDefs : scheduleTask(def)
    \/ \E u \in LifecycleUpdates : updateTask("t1", u)
    \/ enableTask("t1")
    \/ disableTask("t1")
    \/ start
    \/ stop
    \/ triggerManualTask("t1", Payload("payload", "p"), "ok")

SpecLifecycle == InitLifecycle /\ [][NextLifecycle]_vars

\* SpecModality: a webhook task and a cron task, both with or without a
\* destination, each triggered by its own trigger method or manually; the
\* constructor and init of the plugins may throw and the source may fail.
ModalityDefs ==
    {TaskDef("t1", TRUE, WebhookTrigger("X"), d) : d \in {NoDest, DestType}}
    \cup {TaskDef("t2", TRUE, CronTrigger("*/1 * * * *"), d) : d \in {NoDest, DestType}}

InitModality == InitWith(ModalityOps, ModalityCalls, ModalityInv)

NextModality ==
    \/ Registration
    \/ Execution(PlainPlugin)
    \/ \E def \in ModalityDefs : scheduleTask(def)
    \/ \E id \in Ids, ctor \in PlainPlugin.ctor :
          triggerManualTask(id, Payload("payload", "p"), ctor)
    \/ \E ctor \in PlainPlugin.ctor : triggerWebhookTask("X", "p", ctor)
    \/ \E ctor \in PlainPlugin.ctor : triggerAllEnabledCronTasks(0, ctor)

SpecModality == InitModality /\ [][NextModality]_vars

\* SpecArm: a task scheduled every minute, with or without a destination,
\* on a manager that is started and stopped while the scheduler ticks; the
\* plugins always succeed.
ArmDefs ==
    {TaskDef("t1", TRUE, CronTrigger("*/1 * * * *"), d) : d \in {NoDest, DestType}}

InitArm == InitWith(ArmOps, ArmCalls, ArmInv)

NextArm ==
    \/ Registration
    \/ Execution(GoodPlugin)
    \/ \E def \in ArmDefs : scheduleTask(def)
    \/ start
    \/ stop
    \/ triggerAllEnabledCronTasks(0, "ok")

SpecArm == InitArm /\ [][NextArm]_vars

\* SpecSlot: a task scheduled every minute, with or without a destination,
\* triggered by hand as well as by the scheduler while time passes; the
\* plugins always succeed.
SlotDefs ==
    {TaskDef("t1", TRUE, CronTrigger("*/1 * * * *"), d) : d \in {NoDest, DestType}}

InitSlot == InitWith(SlotOps, SlotCalls, SlotInv)

NextSlot ==
    \/ Registration
    \/ Execution(GoodPlugin)
    \/ \E def \in SlotDefs : scheduleTask(def)
    \/ \E t \in Times : tick(t)
    \/ triggerManualTask("t1", Payload("payload", "p"), "ok")
    \/ \E now \in Times : now <= clock /\ triggerAllEnabledCronTasks(now, "ok")

SpecSlot == InitSlot /\ [][NextSlot]_vars

\* SpecLive: two tasks behind one webhook endpoint, triggered by hand and by
\* the webhook.  Every awaited plugin call settles and the event loop runs
\* every continuation that is ready: a step of an execution or of a trigger
\* call that stays possible is taken.
LiveDefs ==
    {TaskDef(id, TRUE, WebhookTrigger("X"), IF id = "t2" THEN DestType ELSE NoDest) :
        id \in Ids}

InitLive == InitWith(LiveOps, LiveCalls, LiveInv)

NextLive ==
    \/ Registration
    \/ Execution(PlainPlugin)
    \/ \E def \in LiveDefs : scheduleTask(def)
    \/ \E ctor \in PlainPlugin.ctor : triggerManualTask("t2", Payload("payload", "p"), ctor)
    \/ \E ctor \in PlainPlugin.ctor : triggerWebhookTask("X", "p", ctor)

SpecLive == InitLive /\ [][NextLive]_vars /\ WF_vars(Execution(PlainPlugin))

\* ==================================================== properties
InFlight(i) == invs[i].pc \notin {"done", "threw"}
Emitted(i, type) == \E k \in DOMAIN invs[i].events : invs[i].events[k].type = type
TerminalEvents(i) ==
    {k \in DOMAIN invs[i].events :
        invs[i].events[k].type \in {TASK_COMPLETED, TASK_FAILED}}
\* Execution i returns in this step.
Returns(i) ==
    /\ i \in DOMAIN invs'
    /\ invs'[i].pc = "done"
    /\ (i \in DOMAIN invs => invs[i].pc # "done")
\* Another execution of the same task id is in flight.
Overlapped(i) ==
    \E j \in DOMAIN invs : j # i /\ invs[j].id = invs[i].id /\ InFlight(j)

\* C1: every execution that ran the pipeline and has returned emitted
\* exactly one of TASK_COMPLETED / TASK_FAILED.
C1_ExactlyOneTerminalEvent ==
    \A i \in DOMAIN invs :
        invs[i].pc = "done" /\ Emitted(i, TASK_TRIGGERED)
            => Cardinality(TerminalEvents(i)) = 1

\* C2: when an execution of an enabled task returns and no other execution
\* of the task is in flight, the task stored under its id has currentStatus
\* COMPLETED if the returned status has success = true and FAILED
\* otherwise, and lastRunStatus is the returned status; a throw out of the
\* orchestrator returns the failed "unhandled error" status.
C2_StatusFollowsResult ==
    [][\A i \in DOMAIN invs' :
          (/\ Returns(i)
           /\ invs'[i].status.msg # "disabled"
           /\ i \in DOMAIN invs => ~Overlapped(i)
           /\ tasks'[invs'[i].id] # 0)
          => LET task == heap'[tasks'[invs'[i].id]]
                 st == invs'[i].status
             IN  /\ task.currentStatus = IF st.success THEN COMPLETED ELSE FAILED
                 /\ task.lastRunStatus = st
                 /\ invs'[i].othrew => st = St(FALSE, "unhandled_error", -1)]_vars

\* C3: a stored task whose currentStatus is RUNNING has an execution in
\* flight.
C3_NeverStuckRunning ==
    \A id \in KeyIds :
        tasks[id] # 0 /\ heap[tasks[id]].currentStatus = RUNNING
            => \E i \in DOMAIN invs : invs[i].id = id /\ InFlight(i)

\* C7: scheduleTask with an id already in the store returns failure and
\* changes neither the store, the stored definitions, the orchestrator cache
\* nor the event bus.
C7_ScheduleCollision ==
    [][(opsLeft' # opsLeft /\ ret'.op = "scheduleTask" /\ tasks[ret'.id] # 0)
          => /\ ~ret'.success
             /\ UNCHANGED <<heap, tasks, order, orchestrators, eventBus>>]_vars

\* A colliding scheduleTask has returned while the task has a cached
\* orchestrator.
C7_Witness ==
    /\ ret.op = "scheduleTask"
    /\ ~ret.success
    /\ orchestrators[ret.id] # NoOrch

\* C10: once the transformer has returned zero records the pipeline has
\* returned success with itemsProcessed 0 and emitted TASK_COMPLETED; it is
\* never at processData and never emits DATA_PROCESSED.
C10_EmptyShortCircuit ==
    \A i \in DOMAIN invs :
        invs[i].recs = 0
            => /\ invs[i].pc \in {"mgrResume", "done"}
               /\ invs[i].ostatus.success
               /\ invs[i].ostatus.items = 0
               /\ Emitted(i, TASK_COMPLETED)
               /\ ~Emitted(i, DATA_PROCESSED)

\* The transformer of a task with a destination returned no records and the
\* execution has returned.
C10_Witness ==
    \E i \in DOMAIN invs :
        invs[i].recs = 0 /\ invs[i].orch.dest /\ invs[i].pc = "done"

\* C4 as claimed: no two runs of one task are in flight together.
C4_AtMostOneActiveRun ==
    \A i, j \in DOMAIN invs :
        (/\ i # j
         /\ InFlight(i) /\ Emitted(i, TASK_TRIGGERED)
         /\ InFlight(j) /\ Emitted(j, TASK_TRIGGERED))
            => invs[i].id # invs[j].id

\* C4 as amended: the runs one trigger call starts are sequential - two
\* executions in flight together always belong to two trigger calls.
C4_OneRunPerCall ==
    \A i, j \in DOMAIN invs :
        i # j /\ InFlight(i) /\ InFlight(j) => invs[i].call # invs[j].call

\* Two trigger calls each have a run of the same task in flight.
C4_Witness ==
    \E i, j \in DOMAIN invs :
        /\ i # j
        /\ invs[i].id = invs[j].id
        /\ InFlight(i) /\ Emitted(i, TASK_TRIGGERED)
        /\ InFlight(j) /\ Emitted(j, TASK_TRIGGERED)

\* C8: when a webhook call is over, every task that was enabled with that
\* endpoint when it came in, and no other, has been executed with
\* {webhookPayload: payload}, and the call has returned a status that is a
\* success exactly if every execution returned success.
C8_WebhookFanOut ==
    \A c \in DOMAIN calls :
        LET call == calls[c]
            mine == {i \in DOMAIN invs : invs[i].call = c}
        IN  (call.kind = "webhook" /\ call.pc # "await" /\ call.matched # <<>>)
            => /\ \A k \in DOMAIN call.matched :
                     \E i \in mine : /\ invs[i].ref = call.matched[k]
                                     /\ invs[i].payload = Payload("webhookPayload", "p")
               /\ \A i \in mine : \E k \in DOMAIN call.matched :
                     invs[i].ref = call.matched[k]
               /\ call.pc = "returned"
               /\ call.status.success <=> \A i \in mine : invs[i].status.success

\* C9: a webhook call whose endpoint no enabled webhook task has returns a
\* failure and leaves the tasks, the cache, the executions and the bus as
\* they were.
C9_NoMatchNoEffect ==
    [][\A e \in {"X", "Y"} :
          (/\ Len(calls') = Len(calls) + 1
           /\ calls'[Len(calls')].kind = "webhook"
           /\ calls'[Len(calls')].arg = e
           /\ ~\E id \in KeyIds : /\ tasks[id] # 0
                                  /\ heap[tasks[id]].enabled
                                  /\ heap[tasks[id]].trigger = WebhookTrigger(e))
          => /\ calls'[Len(calls')].pc = "returned"
             /\ ~calls'[Len(calls')].status.success
             /\ UNCHANGED <<heap, tasks, order, orchestrators, eventBus, invs>>]_vars

\* A webhook call found its endpoint's only task disabled and returned.
C9_Witness ==
    \E c \in DOMAIN calls, id \in KeyIds :
        /\ calls[c].kind = "webhook"
        /\ calls[c].status.msg = "no_enabled_webhook_task"
        /\ tasks[id] # 0
        /\ ~heap[tasks[id]].enabled
        /\ heap[tasks[id]].trigger = WebhookTrigger(calls[c].arg)

\* An execution a cron call started and that reached the pipeline.
CronRun(i) ==
    calls[invs[i].call].kind = "cron" /\ Emitted(i, TASK_TRIGGERED)

\* The fire time the cron call of execution i ran the task for.
Slot(i) ==
    PreviousRunTime(heap[invs[i].ref].trigger.arg, calls[invs[i].call].now)

\* C5: the cron calls, one after another or overlapping, run the pipeline
\* of a task at most once for one fire time.
C5_CronIdempotentPerSlot ==
    \A i, j \in DOMAIN invs :
        (i # j /\ invs[i].ref = invs[j].ref /\ CronRun(i) /\ CronRun(j))
            => Slot(i) # Slot(j)

\* expression fires at second t.
Fires(expression, t) ==
    CronPeriod(expression) # 0 /\ t % CronPeriod(expression) = 0

\* The task is enabled, scheduled by cron, and its most recent fire time F
\* at or before now is later than now - 65 s and later than its lastRun.
ShouldRun(task, now) ==
    /\ task.enabled
    /\ task.trigger.type = "cron"
    /\ \E F \in 0..now :
          /\ Fires(task.trigger.arg, F)
          /\ \A t \in (F + 1)..now : ~Fires(task.trigger.arg, t)
          /\ F > now - 65
          /\ (task.lastRun = NoTime \/ task.lastRun < F)

\* C6: each stretch of the cron loop, from the task after the one it last
\* awaited to the next one it hands to _executeIngestionTask or to the end,
\* passes over exactly the tasks that are disabled, not cron tasks or not
\* due, and executes a task exactly if it is enabled, a cron task and due.
C6_CronExecutesIffDue ==
    [][\A c \in DOMAIN calls' :
          LET from == IF c \in DOMAIN calls THEN calls[c].pos ELSE 0
              to == calls'[c].pos
              now == calls'[c].now
          IN  (calls'[c].kind = "cron" /\ to > from)
              => /\ \A k \in (from + 1)..(to - 1) :
                       ~ShouldRun(heap[tasks[order[k]]], now)
                 /\ IF to <= Len(order)
                    THEN /\ ShouldRun(heap[tasks[order[to]]], now)
                         /\ Len(invs') = Len(invs) + 1
                         /\ invs'[Len(invs')].call = c
                         /\ invs'[Len(invs')].ref = tasks[order[to]]
                    ELSE invs' = invs]_vars

\* One tick has run a task, and another has found nothing due although a
\* cron task that has run is enabled.
C6_Witness ==
    \E c1, c2 \in DOMAIN calls, id \in KeyIds :
        /\ calls[c1].kind = "cron" /\ calls[c1].pc = "returned" /\ calls[c1].due = 1
        /\ calls[c2].kind = "cron" /\ calls[c2].pc = "returned" /\ calls[c2].due = 0
        /\ tasks[id] # 0
        /\ heap[tasks[id]].enabled
        /\ heap[tasks[id]].trigger.type = "cron"
        /\ heap[tasks[id]].lastRun # NoTime

\* C11: a trigger method never runs a task that is disabled when it comes to
\* it: triggerManualTask returns failure without an execution, an execution
\* entered for it stops at the guard, with a failure and no event, and no
\* step of a trigger method changes the disabled task.
C11_DisabledNeverRuns ==
    [][\A r \in DOMAIN heap :
          ~heap[r].enabled
          => /\ calls' # calls => heap'[r] = heap[r]
             /\ \A i \in DOMAIN invs' \ DOMAIN invs :
                   invs'[i].ref = r
                   => /\ invs'[i].pc = "done"
                      /\ ~invs'[i].status.success
                      /\ invs'[i].events = <<>>
             /\ (/\ Len(calls') = Len(calls) + 1
                 /\ calls'[Len(calls')].kind = "manual"
                 /\ tasks[calls'[Len(calls')].arg] = r)
                => /\ calls'[Len(calls')].pc = "returned"
                   /\ ~calls'[Len(calls')].status.success
                   /\ invs' = invs]_vars

\* A manual trigger was refused for a disabled task, and a webhook or cron
\* call came to a task disabled while it awaited an earlier one.
C11_Witness ==
    /\ \E c \in DOMAIN calls :
          /\ calls[c].kind = "manual"
          /\ calls[c].pc = "returned"
          /\ calls[c].status.msg = "disabled"
    /\ \E i \in DOMAIN invs :
          /\ calls[invs[i].call].kind \in {"webhook", "cron"}
          /\ invs[i].status.msg = "disabled"
          /\ heap[invs[i].ref].currentStatus = DISABLED

\* C12: an execution that starts runs the source and the transformer
\* registered last under the task's source.pluginType.
C12_LastRegistrationUsed ==
    [][\A i \in DOMAIN invs' \ DOMAIN invs :
          invs'[i].pc \in {"destInit", "initClient"}
          => invs'[i].orch.impl = sourcePlugins[heap[invs'[i].ref].source]]_vars

\* C13: an execution entered for an enabled task whose source plugin, or
\* whose configured destination plugin, is not registered returns at once a
\* failed status that names the missing plugin, leaves the stored task
\* FAILED with that status, emits TASK_FAILED and nothing else, constructs
\* no plugin instance and no orchestrator and runs no stage.
C13_LookupFailure ==
    [][\A i \in DOMAIN invs' \ DOMAIN invs :
          LET task == heap[invs'[i].ref]
              noSource == sourcePlugins[task.source] = 0
              noDest == task.destination # NoDest /\ destinationPlugins[task.destination] = 0
          IN  (task.enabled /\ (noSource \/ noDest))
              => /\ invs'[i].pc = "done"
                 /\ invs'[i].status =
                       St(FALSE, IF noSource THEN "source_not_registered"
                                 ELSE "destination_not_registered", -1)
                 /\ heap'[tasks[task.id]].currentStatus = FAILED
                 /\ heap'[tasks[task.id]].lastRunStatus = invs'[i].status
                 /\ invs'[i].events = <<Ev(TASK_FAILED, task.id, i)>>
                 /\ nextInst' = nextInst
                 /\ orchestrators' = orchestrators]_vars

\* One execution failed for its source plugin, another for its destination
\* plugin.
C13_Witness ==
    \E i, j \in DOMAIN invs :
        /\ invs[i].status.msg = "source_not_registered"
        /\ invs[j].status.msg = "destination_not_registered"
        /\ heap[invs[j].ref].currentStatus = FAILED

\* C14: no trigger call ends by throwing, and an execution in which a
\* plugin threw returns a failed status and has emitted TASK_FAILED.
C14_NoExceptionEscapes ==
    /\ \A c \in DOMAIN calls : calls[c].pc # "thrown"
    /\ \A i \in DOMAIN invs :
          /\ invs[i].pc # "threw"
          /\ (/\ invs[i].pc = "done"
              /\ \/ invs[i].othrew
                 \/ invs[i].ostatus.msg \in {"task_failed_exception", "destination_error"})
             => ~invs[i].status.success /\ Emitted(i, TASK_FAILED)

\* The place of a position of an execution in the pipeline.
StageRank(pc) ==
    CASE pc \in {"entry", "destInit"} -> 0
      [] pc = "initClient" -> 1
      [] pc = "execute" -> 2
      [] pc = "transform" -> 3
      [] pc = "process" -> 4
      [] pc = "mgrResume" -> 5
      [] pc \in {"done", "threw"} -> 6

\* The place of an event in the order of the pipeline's events.
EventRank(type) ==
    CASE type = TASK_TRIGGERED -> 0
      [] type = DATA_FETCHED -> 1
      [] type = DATA_TRANSFORMED -> 2
      [] type = DATA_PROCESSED -> 3
      [] type \in {TASK_COMPLETED, TASK_FAILED} -> 4

\* C15: an execution calls initClient, execute, the transformer and
\* processData in this order, each at most once and each only when every
\* stage before it has succeeded; its events are in the order DATA_FETCHED,
\* DATA_TRANSFORMED, DATA_PROCESSED, terminal, each data event at most once,
\* DATA_PROCESSED only after a successful delivery.
C15_StageOrder ==
    [][\A i \in DOMAIN invs' :
          LET new == invs'[i]
              ev == new.events
          IN  /\ (i \in DOMAIN invs /\ new.pc # invs[i].pc)
                 => /\ StageRank(new.pc) > StageRank(invs[i].pc)
                    /\ new.pc \in {"execute", "transform", "process"}
                       => /\ StageRank(new.pc) = StageRank(invs[i].pc) + 1
                          /\ new.ostatus = NoStatus
                          /\ ~new.othrew
                          /\ TerminalEvents(i) = {}
              /\ \A k, l \in DOMAIN ev :
                    k < l => /\ EventRank(ev[k].type) <= EventRank(ev[l].type)
                             /\ EventRank(ev[l].type) < 4
                                => EventRank(ev[k].type) < EventRank(ev[l].type)
              /\ (\E k \in DOMAIN ev : ev[k].type = DATA_PROCESSED)
                 => new.orch.dest /\ new.ostatus = St(TRUE, "completed", new.recs)]_vars

\* One execution went through all four stages and delivered, another one
\* stopped at a stage that threw before anything was fetched.
C15_Witness ==
    \E i, j \in DOMAIN invs :
        /\ invs[i].pc = "done" /\ Emitted(i, DATA_PROCESSED)
        /\ invs[j].pc = "done"
        /\ invs[j].ostatus.msg = "task_failed_exception"
        /\ ~Emitted(j, DATA_FETCHED)

\* C16: once processData has returned a failing status or thrown, the
\* pipeline has returned a failed status with itemsProcessed 0 and emitted
\* TASK_FAILED and no DATA_PROCESSED; once it has returned success, the
\* pipeline has returned success with itemsProcessed the number of
\* transformed records.
C16_DeliveryOutcome ==
    \A i \in DOMAIN invs :
        /\ invs[i].sent \in {"failure"} \cup Throws
           => /\ ~invs[i].ostatus.success
              /\ invs[i].ostatus.items = 0
              /\ Emitted(i, TASK_FAILED)
              /\ ~Emitted(i, DATA_PROCESSED)
        /\ invs[i].sent = "success"
           => /\ invs[i].ostatus.success
              /\ invs[i].ostatus.items = invs[i].recs
              /\ invs[i].recs >= 1
              /\ Emitted(i, DATA_PROCESSED)
        /\ invs[i].sent # "none" /\ invs[i].pc = "done"
           => invs[i].status = invs[i].ostatus

\* A delivery of two records succeeded and another delivery threw.
C16_Witness ==
    \E i, j \in DOMAIN invs :
        /\ invs[i].sent = "success" /\ invs[i].recs = 2 /\ invs[i].pc = "done"
        /\ invs[j].sent \in Throws /\ invs[j].pc = "done"

C18_SourceFailure ==
    \A i \in DOMAIN invs :
        invs[i].srcok = "failure"
            => /\ invs[i].pc \in {"mgrResume", "done"}
               /\ ~invs[i].ostatus.success
               /\ invs[i].carried.message[Len(invs[i].carried.message)] = "m"
               /\ invs[i].carried.data.data = "d"
               /\ Emitted(i, TASK_FAILED)
               /\ ~Emitted(i, DATA_FETCHED)
               /\ ~Emitted(i, DATA_TRANSFORMED)
               /\ invs[i].recs = -1
               /\ invs[i].sent = "none"
               /\ invs[i].pc = "done" => invs[i].status = invs[i].ostatus

\* The source of a task with a destination failed and the execution has
\* returned.
C18_Witness ==
    \E i \in DOMAIN invs :
        invs[i].srcok = "failure" /\ invs[i].orch.dest /\ invs[i].pc = "done"

\* C19: every record of an execution carries the fetchedAt the orchestrator
\* captured when source.execute returned.
C19_SharedFetchedAt ==
    \A i \in DOMAIN invs :
        \A k \in DOMAIN invs[i].stamps : invs[i].stamps[k] = invs[i].fetchedAt

\* An enabled cron task whose expression has no fire time.
BadCron(task, now) ==
    /\ task.enabled
    /\ task.trigger.type = "cron"
    /\ \A t \in 0..now : ~Fires(task.trigger.arg, t)

\* C20: a stretch of the cron loop that comes to an enabled cron task with
\* an unparseable expression does not throw and leaves that task as it is,
\* and the first task after the stretch's start that is enabled, a cron task
\* and due is executed in the same stretch, also behind the bad task.
C20_ParseErrorIsolated ==
    [][\A c \in DOMAIN calls' :
          LET from == IF c \in DOMAIN calls THEN calls[c].pos ELSE 0
              to == calls'[c].pos
              now == calls'[c].now
              at(k) == heap[tasks[order[k]]]
              bad == {k \in (from + 1)..Len(order) :
                         /\ BadCron(at(k), now)
                         /\ \A j \in (from + 1)..(k - 1) : ~ShouldRun(at(j), now)}
          IN  (calls'[c].kind = "cron" /\ to > from /\ bad # {})
              => /\ calls'[c].pc \in {"await", "returned"}
                 /\ \A k \in bad : /\ k < to
                                   /\ heap'[tasks[order[k]]] = at(k)
                 /\ \A k \in (from + 1)..Len(order) :
                       (/\ ShouldRun(at(k), now)
                        /\ \A j \in (from + 1)..(k - 1) : ~ShouldRun(at(j), now))
                       => /\ to = k
                          /\ calls'[c].pc = "await"
                          /\ calls'[c].cur \notin DOMAIN invs
                          /\ invs'[calls'[c].cur].ref = tasks[order[k]]]_vars

\* A cron call passed a task with an unparseable expression and executed the
\* task behind it; the bad task is as scheduled.
C20_Witness ==
    \E c \in DOMAIN calls, i \in DOMAIN invs :
        /\ calls[c].kind = "cron"
        /\ Len(order) = 2
        /\ BadCron(heap[tasks[order[1]]], calls[c].now)
        /\ heap[tasks[order[1]]].currentStatus = SCHEDULED
        /\ heap[tasks[order[1]]].lastRun = NoTime
        /\ invs[i].call = c
        /\ invs[i].ref = tasks[order[2]]
        /\ Emitted(i, TASK_TRIGGERED)

\* C21: a cron call that came to an enabled cron task with an unparseable
\* expression returns a failure (whose data is the result list with the
\* failed entry of that task, line 293), whether another task was due or not.
C21_ParseErrorReported ==
    \A c \in DOMAIN calls :
        (/\ calls[c].kind = "cron"
         /\ calls[c].pc = "returned"
         /\ \E k \in DOMAIN calls[c].results :
               calls[c].results[k].status.msg = "cron_parse_error")
            => /\ ~calls[c].status.success
               /\ calls[c].status.msg = "cron_summary"

\* Execution i is the first one of its task object to get an orchestrator.
\* scheduleTask stores a new object, so that a task scheduled again under
\* the id of a deleted one is another object.
FirstOfTask(i) ==
    \A j \in DOMAIN invs :
        invs[j].ref = invs'[i].ref => invs[j].orch = NoOrch

\* C22: deleteTask of a stored id removes the task and the cached
\* orchestrator of the id, emits TASK_DELETED and returns success, and of an
\* unknown id returns failure and changes nothing; a manual trigger of an id
\* that is not stored fails without an execution; the first execution of a
\* task scheduled again under the id runs an orchestrator constructed for it.
C22_DeleteTask ==
    [][/\ (opsLeft' # opsLeft /\ ret'.op = "deleteTask")
          => IF tasks[ret'.id] # 0
             THEN /\ ret'.success
                  /\ tasks'[ret'.id] = 0
                  /\ orchestrators'[ret'.id] = NoOrch
                  /\ eventBus' = Append(eventBus, Ev(TASK_DELETED, ret'.id, 0))
             ELSE /\ ~ret'.success
                  /\ UNCHANGED <<heap, tasks, order, orchestrators, eventBus>>
       /\ (/\ Len(calls') = Len(calls) + 1
           /\ calls'[Len(calls')].kind = "manual"
           /\ tasks[calls'[Len(calls')].arg] = 0)
          => /\ calls'[Len(calls')].pc = "returned"
             /\ ~calls'[Len(calls')].status.success
             /\ invs' = invs
       /\ \A i \in DOMAIN invs' \ DOMAIN invs :
             (invs'[i].pc \in {"destInit", "initClient"} /\ FirstOfTask(i))
             => /\ invs'[i].orch.inst = nextInst
                /\ nextInst' = nextInst + 1]_vars

\* C23: the executions of a task between its scheduling and its deletion
\* all run the same orchestrator: the source plugin is constructed and the
\* destination initialised once.
C23_OneOrchestratorPerTask ==
    \A i, j \in DOMAIN invs :
        (/\ invs[i].ref = invs[j].ref
         /\ invs[i].orch # NoOrch
         /\ invs[j].orch # NoOrch)
            => invs[i].orch.inst = invs[j].orch.inst

\* C24: when an execution returns after a later-entered execution of the
\* same task id has returned (the two overlapped, and this one completes
\* later) and no other is in flight, the task stored under the id has the
\* status this execution returns as lastRunStatus, and the currentStatus
\* that follows from it.
C24_LastWriteWins ==
    [][\A i, j \in DOMAIN invs :
          (/\ Returns(i)
           /\ j > i
           /\ invs[j].id = invs[i].id
           /\ invs[j].pc = "done"
           /\ \A k \in DOMAIN invs \ {i} : invs[k].id = invs[i].id => ~InFlight(k)
           /\ tasks'[invs[i].id] # 0)
          => LET task == heap'[tasks'[invs[i].id]]
                 st == invs'[i].status
             IN  /\ task.lastRunStatus = st
                 /\ task.currentStatus = IF st.success THEN COMPLETED ELSE FAILED]_vars

\* C25: the task stored under a key has that key as its id.
C25_IdImmutable ==
    \A k \in KeyIds : tasks[k] # 0 => heap[tasks[k]].id = k

\* C26: enableTask and disableTask of an unknown id return failure and
\* change nothing; of a task that is enabled, or disabled, already they
\* return success, change no task and emit nothing; otherwise they return
\* success, set enabled and set currentStatus to SCHEDULED, or DISABLED, on
\* that task alone and emit TASK_ENABLED, or TASK_DISABLED.
C26_EnableDisable ==
    [][(opsLeft' # opsLeft /\ ret'.op \in {"enableTask", "disableTask"})
          => LET id == ret'.id
                 want == ret'.op = "enableTask"
                 r == tasks[id]
             IN  /\ UNCHANGED <<tasks, order, orchestrators>>
                 /\ IF r = 0
                    THEN ~ret'.success /\ UNCHANGED <<heap, eventBus>>
                    ELSE /\ ret'.success
                         /\ IF heap[r].enabled = want
                            THEN UNCHANGED <<heap, eventBus>>
                            ELSE /\ heap' = [heap EXCEPT ![r] =
                                       [heap[r] EXCEPT
                                           !.enabled = want,
                                           !.currentStatus =
                                               IF want THEN SCHEDULED ELSE DISABLED]]
                                 /\ eventBus' = Append(eventBus,
                                       Ev(IF want THEN TASK_ENABLED ELSE TASK_DISABLED,
                                          id, 0))]_vars

\* enableTask of an enabled task has returned success and emitted nothing;
\* the task is RUNNING.
C26_Witness ==
    /\ ret = Ret("enableTask", "t1", TRUE)
    /\ tasks["t1"] # 0
    /\ heap[tasks["t1"]].currentStatus = RUNNING
    /\ \A k \in DOMAIN eventBus : eventBus[k].type # TASK_ENABLED

\* C27: start when the lifecycle is started and stop when it is not change
\* nothing and emit nothing; otherwise start sets lifecycleStarted and stop
\* clears it; neither changes a task.
C27_StartStop ==
    [][(opsLeft' # opsLeft /\ ret'.op \in {"start", "stop"})
          => LET on == ret'.op = "start"
             IN  /\ UNCHANGED <<heap, tasks, order, orchestrators>>
                 /\ lifecycleStarted' = on
                 /\ lifecycleStarted = on => eventBus' = eventBus]_vars

\* stop has returned on a manager that was not started: no stop was ever
\* announced on the bus; a task is RUNNING.
C27_Witness ==
    /\ ret.op = "stop"
    /\ ~lifecycleStarted
    /\ \A k \in DOMAIN eventBus : eventBus[k].id # "manager:stop"
    /\ \E k \in KeyIds : tasks[k] # 0 /\ heap[tasks[k]].currentStatus = RUNNING

\* C28: scheduleTask of a definition whose id is not stored, or that has no
\* id and is given the generated one, returns success, stores the task under
\* the id with currentStatus SCHEDULED and neither lastRun nor lastRunStatus,
\* leaves the other tasks as they are and emits TASK_SCHEDULED with the id
\* once.
C28_ScheduleTask ==
    [][(opsLeft' # opsLeft /\ ret'.op = "scheduleTask" /\ tasks[ret'.id] = 0)
          => LET id == ret'.id
             IN  /\ ret'.success
                 /\ tasks'[id] # 0
                 /\ \A k \in KeyIds \ {id} : tasks'[k] = tasks[k]
                 /\ \A r \in DOMAIN heap : heap'[r] = heap[r]
                 /\ heap'[tasks'[id]].id = id
                 /\ heap'[tasks'[id]].currentStatus = SCHEDULED
                 /\ heap'[tasks'[id]].lastRun = NoTime
                 /\ heap'[tasks'[id]].lastRunStatus = NoStatus
                 /\ eventBus' = Append(eventBus, Ev(TASK_SCHEDULED, id, 0))]_vars

\* A definition without an id, which the caller had left FAILED with a
\* lastRun, is stored under the generated id beside a task that is RUNNING.
C28_Witness ==
    /\ ret = Ret("scheduleTask", Uuid, TRUE)
    /\ tasks[Uuid] # 0
    /\ heap[tasks[Uuid]].currentStatus = SCHEDULED
    /\ ~heap[tasks[Uuid]].enabled
    /\ tasks["t1"] # 0
    /\ heap[tasks["t1"]].currentStatus = RUNNING

\* C29: updateTask of an unknown id returns failure and changes nothing; of
\* a stored id it returns success, stores under the id a task that has the
\* value of updates in every field updates names and the value the task had
\* in every other field, leaves every other task as it is and emits
\* TASK_UPDATED.
C29_UpdateTask ==
    [][(opsLeft' # opsLeft /\ ret'.op = "updateTask")
          => LET id == ret'.id
                 updates == ret'.updates
                 r == tasks[id]
             IN  /\ UNCHANGED <<order, orchestrators>>
                 /\ \A k \in KeyIds \ {id} : tasks'[k] = tasks[k]
                 /\ \A r2 \in DOMAIN heap : heap'[r2] = heap[r2]
                 /\ IF r = 0
                    THEN ~ret'.success /\ UNCHANGED <<heap, tasks, eventBus>>
                    ELSE /\ ret'.success
                         /\ tasks'[id] # 0
                         /\ \A f \in DOMAIN heap[r] :
                               heap'[tasks'[id]][f] =
                                   IF f \in DOMAIN updates THEN updates[f] ELSE heap[r][f]
                         /\ eventBus' = Append(eventBus, Ev(TASK_UPDATED, id, 0))]_vars

\* The name of a task was updated while the task was RUNNING, beside a
\* second task.
C29_Witness ==
    /\ ret.op = "updateTask"
    /\ ret.success
    /\ ret.updates = [name |-> "n2"]
    /\ tasks["t1"] # 0
    /\ heap[tasks["t1"]].name = "n2"
    /\ heap[tasks["t1"]].currentStatus = RUNNING
    /\ heap[tasks["t1"]].lastRun # NoTime
    /\ tasks["t2"] # 0

\* What the plugins did in execution i: whether one threw, and what the
\* source returned.
Behaviour(i) == [thrown |-> invs[i].thrown, srcok |-> invs[i].srcok]

\* Execution i found the plugins of its task registered.
FoundPlugins(i) == invs[i].impl # 0 \/ invs[i].thrown # "none"

\* The types of the events of execution i, in order.
EventTypes(i) == [k \in DOMAIN invs[i].events |-> invs[i].events[k].type]

\* The Status the trigger call of execution i gives for its task: what
\* triggerManualTask returns, or the task's entry in the result list of
\* the webhook or cron call; none when the call threw before it had one.
Reported(i) ==
    LET call == calls[invs[i].call]
    IN  IF call.kind = "manual"
        THEN IF call.pc = "returned" THEN {call.status} ELSE {}
        ELSE {call.results[k].status :
                 k \in {k \in DOMAIN call.results : call.results[k].taskId = invs[i].id}}

\* C30: two executions of two tasks that differ only in their trigger,
\* started by different trigger methods and in which the plugins did the
\* same, emit the same events, leave their tasks with the same currentStatus
\* and lastRunStatus and are reported with the same Status.
C30_ModalityIndependent ==
    \A i, j \in DOMAIN invs :
        (/\ invs[i].ref # invs[j].ref
         /\ calls[invs[i].call].kind # calls[invs[j].call].kind
         /\ calls[invs[i].call].pc \in {"returned", "thrown"}
         /\ calls[invs[j].call].pc \in {"returned", "thrown"}
         /\ heap[invs[i].ref].destination = heap[invs[j].ref].destination
         /\ FoundPlugins(i) /\ FoundPlugins(j)
         /\ Behaviour(i) = Behaviour(j))
            => /\ EventTypes(i) = EventTypes(j)
               /\ heap[invs[i].ref].currentStatus = heap[invs[j].ref].currentStatus
               /\ heap[invs[i].ref].lastRunStatus = heap[invs[j].ref].lastRunStatus
               /\ Reported(i) = Reported(j)

\* C31: a call of triggerAllEnabledCronTasks that comes while the lifecycle
\* is not started, before the first start or after a stop, starts no
\* execution that builds an orchestrator or runs the pipeline.
C31_StoppedNoCron ==
    [][(/\ Len(calls') = Len(calls) + 1
        /\ calls'[Len(calls')].kind = "cron"
        /\ ~lifecycleStarted)
          => \A i \in DOMAIN invs' \ DOMAIN invs :
                invs'[i].pc \notin {"destInit", "initClient"}]_vars

\* C32: a stored task none of whose executions is in flight is DISABLED
\* exactly if its enabled flag is false.
C32_DisabledIffNotEnabled ==
    \A k \in KeyIds :
        (/\ tasks[k] # 0
         /\ \A i \in DOMAIN invs : invs[i].ref = tasks[k] \/ invs[i].id = k => ~InFlight(i))
            => (heap[tasks[k]].currentStatus = DISABLED <=> ~heap[tasks[k]].enabled)

\* C33: the lifecycle operations emit no TASK_TRIGGERED: every
\* TASK_TRIGGERED carries the id of a task and is the first event of an
\* execution that runs the pipeline, and each such execution emits it once.
C33_TriggeredOnlyByExecution ==
    /\ \A k \in DOMAIN eventBus : eventBus[k].type # TASK_TRIGGERED
    /\ \A i \in DOMAIN invs :
          /\ invs[i].pc \in {"initClient", "execute", "transform", "process", "mgrResume"}
             => invs[i].events[1] = Ev(TASK_TRIGGERED, invs[i].id, i)
          /\ \A k \in DOMAIN invs[i].events :
                invs[i].events[k].type = TASK_TRIGGERED => k = 1 /\ invs[i].id \in KeyIds

\* C34: while the transformer of an execution is awaited, on a successful
\* source status, the raw items it was passed are the items of
\* status.data.data when that is an array (none for the empty array), the
\* one result wrapped (status.data.data when it is a truthy non-array, else a
\* truthy status.data), and nothing when status.data is falsy; DATA_FETCHED
\* has been emitted and no TASK_FAILED.
C34_RawExtraction ==
    \A i \in DOMAIN invs :
        invs[i].pc = "transform"
            => /\ invs[i].srcok = "success"
               /\ invs[i].shape \in Shapes
               /\ invs[i].shape = "arr0" => invs[i].raw = <<>>
               /\ invs[i].shape = "arr2" => invs[i].raw = <<"data.data[0]", "data.data[1]">>
               /\ invs[i].shape = "nestedScalar" => invs[i].raw = <<"data.data">>
               /\ invs[i].shape \in {"nestedFalsy", "plain"} => invs[i].raw = <<"data">>
               /\ invs[i].shape = "none" => invs[i].raw = <<>>
               /\ Emitted(i, DATA_FETCHED)
               /\ ~Emitted(i, TASK_FAILED)
               /\ invs[i].ostatus = NoStatus

\* C34 witness: the transformer is awaited with the two items of a nested
\* array.
C34_Witness ==
    \E i \in DOMAIN invs :
        /\ invs[i].pc = "transform"
        /\ invs[i].shape = "arr2"
        /\ Len(invs[i].raw) = 2
        /\ Emitted(i, DATA_FETCHED)
\* An execution a cron call started and that ended at the plugin lookup.
LookupFailed(i) ==
    /\ calls[invs[i].call].kind = "cron"
    /\ invs[i].status.msg \in {"source_not_registered", "destination_not_registered"}

\* C35: every execution entered for an enabled task that has ended at the
\* plugin lookup or has reached the pipeline has set the lastRun of its task,
\* and the cron calls attempt a task whose plugin is not registered at most
\* once for one fire time.
C35_LastRunEveryAttempt ==
    /\ \A i \in DOMAIN invs :
          (invs[i].status.msg # "disabled" /\ invs[i].pc \notin {"destInit", "threw"})
              => heap[invs[i].ref].lastRun # NoTime
    /\ \A i, j \in DOMAIN invs :
          (i # j /\ invs[i].ref = invs[j].ref /\ LookupFailed(i) /\ LookupFailed(j))
              => Slot(i) # Slot(j)

\* C36: each id with a cached orchestrator is the id of a stored task.
C36_CacheWithinStore ==
    \A k \in KeyIds : orchestrators[k] # NoOrch => tasks[k] # 0
\* C37: a stored task that is COMPLETED has a lastRunStatus with success =
\* true, and one that is FAILED has a lastRunStatus, set, with success =
\* false (updateTask is given no runtime field).
C37_StatusConsistent ==
    \A k \in KeyIds :
        tasks[k] # 0
            => LET task == heap[tasks[k]]
               IN  /\ task.currentStatus = COMPLETED
                      => task.lastRunStatus # NoStatus /\ task.lastRunStatus.success
                   /\ task.currentStatus = FAILED
                      => task.lastRunStatus # NoStatus /\ ~task.lastRunStatus.success

\* C37 witness: two executions of the stored task object overlap; one has
\* returned a failure and left the task FAILED while the other is still in
\* flight.
C37_Witness ==
    \E i, j \in DOMAIN invs :
        /\ i # j
        /\ invs[i].ref = invs[j].ref
        /\ tasks[invs[i].id] = invs[i].ref
        /\ invs[i].pc = "done" /\ InFlight(j)
        /\ Emitted(i, TASK_TRIGGERED) /\ Emitted(j, TASK_TRIGGERED)
        /\ ~invs[i].status.success
        /\ heap[invs[i].ref].currentStatus = FAILED

\* C38: when a cron call starts an execution of a task, every earlier
\* execution of the same task object that found its plugins has set lastRun,
\* and the most recent fire time at the call's reference time is strictly
\* later than that lastRun.
C38_SlotFiredByAnyTrigger ==
    [][\A i \in DOMAIN invs' \ DOMAIN invs :
          calls'[invs'[i].call].kind = "cron"
              => \A j \in DOMAIN invs :
                    (invs[j].ref = invs'[i].ref /\ invs[j].impl # 0)
                        => /\ heap[invs[j].ref].lastRun # NoTime
                           /\ PreviousRunTime(heap[invs[j].ref].trigger.arg,
                                              calls'[invs'[i].call].now)
                                  > heap[invs[j].ref].lastRun]_vars
\* C39: every trigger call that was made eventually returns a status, and
\* every execution that emitted TASK_TRIGGERED eventually emits a terminal
\* event for its task id.
C39_Terminates ==
    /\ \A c \in 1..LiveCalls :
          (c \in DOMAIN calls) ~> (c \in DOMAIN calls /\ calls[c].pc = "returned")
    /\ \A i \in 1..LiveInv :
          (i \in DOMAIN invs /\ Emitted(i, TASK_TRIGGERED))
              ~> (i \in DOMAIN invs /\ TerminalEvents(i) # {})
====
